---- MODULE Spec2Model ----
(***************************************************************************)
(* Model of src/main.py: the simulated OBD-II endpoints (PID list, live    *)
(* snapshot, diagnostics) and the rule-based tech assistant (chat).        *)
(*                                                                         *)
(* Strings that the code inspects character by character (questions, DTC   *)
(* codes, keywords) are sequences of one-character strings; texts that are *)
(* only copied (descriptions, answers, tips) are plain strings.            *)
(* Real numbers are fixed-point integers in hundredths.                    *)
(***************************************************************************)
EXTENDS Integers, Sequences, FiniteSets

VARIABLES
    SUPPORTED_PIDS,  \* module-level dict, main.py:89
    DTC_LIBRARY,     \* module-level dict, main.py:108 (insertion-ordered)
    rng,             \* hidden state of the module-level generator of `random`
    rngWriter,       \* endpoint whose request last advanced the generator
    request,         \* the request received and not yet handled
    last,            \* the request handled last and its response, until the next arrives
    prevChat         \* the latest chat call answered before the request in `request`/`last`

vars == <<SUPPORTED_PIDS, DTC_LIBRARY, rng, rngWriter, request, last, prevChat>>

----------------------------------------------------------------------------
(* Optional[...]: None, or a value *)
None == <<>>
Some(x) == <<x>>

----------------------------------------------------------------------------
(* str.lower() and the substring test `needle in text` *)

UpperChars ==
    <<"A","B","C","D","E","F","G","H","I","J","K","L","M","N","O","P","Q",
      "R","S","T","U","V","W","X","Y","Z","É">>

LowerChars ==
    <<"a","b","c","d","e","f","g","h","i","j","k","l","m","n","o","p","q",
      "r","s","t","u","v","w","x","y","z","é">>

UpperSet == { UpperChars[i] : i \in 1..Len(UpperChars) }

LowerChar(c) ==
    IF c \in UpperSet
    THEN LowerChars[CHOOSE i \in 1..Len(UpperChars) : UpperChars[i] = c]
    ELSE c

RECURSIVE lower(_)
lower(s) == IF s = <<>> THEN <<>> ELSE <<LowerChar(Head(s))>> \o lower(Tail(s))

Contains(needle, text) ==
    \E i \in 0..(Len(text) - Len(needle)) :
        SubSeq(text, i + 1, i + Len(needle)) = needle

----------------------------------------------------------------------------
(* The static tables *)

PIDS_INIT ==
    << [pid |-> "010C", name |-> "Engine RPM"],
       [pid |-> "010D", name |-> "Vehicle Speed"],
       [pid |-> "0105", name |-> "Coolant Temperature"],
       [pid |-> "0111", name |-> "Throttle Position"],
       [pid |-> "0104", name |-> "Calculated Engine Load"],
       [pid |-> "010F", name |-> "Intake Air Temp"] >>

P0300 == <<"P","0","3","0","0">>
P0171 == <<"P","0","1","7","1">>
P0420 == <<"P","0","4","2","0">>
P0113 == <<"P","0","1","1","3">>
P0128 == <<"P","0","1","2","8">>

DTC_INIT ==
    << [code |-> P0300,
        desc |-> "Allumage raté aléatoire/multiple. Vérifier bougies, bobines, faisceau."],
       [code |-> P0171,
        desc |-> "Mélange pauvre (banc 1). Chercher prise d'air, débitmètre, pression carburant."],
       [code |-> P0420,
        desc |-> "Efficacité catalyseur faible. Contrôler fuites échappement, sonde amont/aval, catalyseur."],
       [code |-> P0113,
        desc |-> "Capteur température d'air d'admission (IAT) - signal élevé."],
       [code |-> P0128,
        desc |-> "Thermostat probablement ouvert. Température moteur trop basse."] >>

(* dict.keys(), dict.get(key, default) on an insertion-ordered dict *)
Keys(d) == [i \in 1..Len(d) |-> d[i].code]

Get(d, c, default) ==
    IF \E i \in 1..Len(d) : d[i].code = c
    THEN d[CHOOSE i \in 1..Len(d) : d[i].code = c].desc
    ELSE default

----------------------------------------------------------------------------
(* The tech assistant, main.py:175-236 *)

DTC_TIP == "Vérifier le faisceau, les connecteurs et effacer le code après réparation."

KW_IDLE ==
    { <<"r","p","m">>, <<"r","a","l","e","n","t","i">>, <<"b","o","u","c","l","e">>,
      <<"s","o","n","d","e"," ","l","a","m","b","d","a">>, <<"l","a","m","b","d","a">>,
      <<"o","2">> }

KW_ECU ==
    { <<"e","c","u">>, <<"c","a","l","c","u","l","a","t","e","u","r">>,
      <<"r","e","p","r","o","g","r","a","m">>, <<"r","e","p","r","o","g">>,
      <<"c","a","r","t","o">>, <<"m","a","p">> }

KW_BATTERY ==
    { <<"b","a","t","t","e","r","i","e">>, <<"a","l","t","e","r","n","a","t","e","u","r">>,
      <<"d","é","m","a","r","r","a","g","e">>, <<"d","é","m","a","r","r","e","u","r">>,
      <<"1","2","v">> }

Any(keywords, text) == \E k \in keywords : Contains(k, text)

ANSWER_OBD ==
    "Les adaptateurs ELM327 existent en Bluetooth, Wi-Fi et USB. Pour un diagnostic fiable, utilisez un PID standard (RPM, vitesse, température) et lisez les DTC P0xxx. Je peux simuler des données et expliquer les résultats."
TIPS_OBD ==
    << "Toujours moteur chaud pour des valeurs stables",
       "Vérifier les tensions batterie (>12.4V à l'arrêt, >13.8V en charge)" >>

ANSWER_IDLE ==
    "Au ralenti, un RPM autour de 700-900 est normal. Les sondes lambda oscillent ~0.1-0.9V en boucle fermée. Si instable: rechercher prises d'air, débitmètre encrassé, allumage."
TIPS_IDLE ==
    << "Contrôle fumigène pour prises d'air",
       "Nettoyage papillon et apprentissage ralenti" >>

ANSWER_ECU ==
    "Le calculateur (ECU) gère injection/avance via capteurs. Une reprogrammation doit rester dans les tolérances mécaniques et légales. Pour un diagnostic, lire trims carburant (LTFT/STFT) et pression rail."
TIPS_ECU ==
    << "Toujours sauvegarder la carto d'origine",
       "Surveiller EGT et AFR après modifs" >>

ANSWER_BATTERY ==
    "Pour un défaut de démarrage: tester batterie (chute de tension <9.6V sous charge), alternateur (13.8-14.5V), masse châssis et excitation."
TIPS_BATTERY ==
    << "Mesure avec multimètre en charge",
       "Nettoyer cosses et points de masse" >>

ANSWER_DEFAULT ==
    "Je peux expliquer pannes mécaniques/électriques, décoder DTC, et interpréter tes valeurs OBD. Pose ta question (ex: 'Que signifie P0420 ?' ou 'Ralenti instable essence')."

(* An answer: a fixed text, or the f-string "Le code {code} signifie: {desc}" *)
Fixed(text) == [template |-> text, code |-> <<>>, desc |-> ""]
DtcAnswer(code, desc) ==
    [template |-> "Le code {code} signifie: {desc}", code |-> code, desc |-> desc]

ChatResponse(answer, tips) == [answer |-> answer, tips |-> tips]

(* Faulty variant of the loop: the last matching entry wins *)
RECURSIVE DtcScan_last_match(_, _, _)
DtcScan_last_match(lib, text, i) ==
    IF i > Len(lib) THEN 0
    ELSE LET later == DtcScan_last_match(lib, text, i + 1)
         IN  IF later # 0 THEN later
             ELSE IF Contains(lower(lib[i].code), text) THEN i
             ELSE 0

(* The loop of main.py:180-186 from entry i on: the index of the first entry
   whose lower-cased code occurs in text, 0 when the loop falls through *)
RECURSIVE DtcScan(_, _, _)
DtcScan(lib, text, i) ==
    IF i > Len(lib) THEN 0
    ELSE IF Contains(lower(lib[i].code), text) THEN i
    ELSE DtcScan(lib, text, i + 1)

(* Faulty variants of the assistant: the rules of tech_assistant_answer with
   the tips list starting as tips0, the DTC loop run first or after the
   keyword rules, the idle and ECU rules in either order, and the default
   response carrying defaultTips *)
AnswerVariant(q, tips0, dtcFirst, idleBeforeEcu, defaultTips) ==
    LET text == lower(q)
        hit  == DtcScan(DTC_LIBRARY, text, 1)
        dtc  == ChatResponse(DtcAnswer(DTC_LIBRARY[hit].code, DTC_LIBRARY[hit].desc),
                             Some(Append(tips0, DTC_TIP)))
        obd  == Contains(<<"o","b","d">>, text) \/ Contains(<<"e","l","m","3","2","7">>, text)
    IN  IF dtcFirst /\ hit # 0 THEN dtc
        ELSE IF obd THEN ChatResponse(Fixed(ANSWER_OBD), Some(TIPS_OBD))
        ELSE IF idleBeforeEcu /\ Any(KW_IDLE, text)
        THEN ChatResponse(Fixed(ANSWER_IDLE), Some(TIPS_IDLE))
        ELSE IF Any(KW_ECU, text)
        THEN ChatResponse(Fixed(ANSWER_ECU), Some(TIPS_ECU))
        ELSE IF Any(KW_IDLE, text)
        THEN ChatResponse(Fixed(ANSWER_IDLE), Some(TIPS_IDLE))
        ELSE IF Any(KW_BATTERY, text)
        THEN ChatResponse(Fixed(ANSWER_BATTERY), Some(TIPS_BATTERY))
        ELSE IF hit # 0 THEN dtc
        ELSE ChatResponse(Fixed(ANSWER_DEFAULT), defaultTips)

(* the keyword rules are tried before the DTC loop *)
tech_assistant_answer_keywords_first(q) == AnswerVariant(q, <<>>, FALSE, TRUE, None)

(* the ECU rule is tried before the idle rule *)
tech_assistant_answer_ecu_first(q) == AnswerVariant(q, <<>>, TRUE, FALSE, None)

(* the default response returns the (empty) tips list instead of None *)
tech_assistant_answer_empty_tips(q) == AnswerVariant(q, <<>>, TRUE, TRUE, Some(<<>>))

(* the tips list is shared by the calls: a DTC match appends to the list
   the DTC match before it returned *)
tech_assistant_answer_shared_tips(q) ==
    AnswerVariant(q,
                  IF prevChat.asked /\ prevChat.answer.code # <<>> THEN prevChat.tips[1] ELSE <<>>,
                  TRUE, TRUE, None)

tech_assistant_answer(q) ==
    LET text == lower(q)
        tips == <<>>
        hit  == DtcScan(DTC_LIBRARY, text, 1)
    IN  IF hit # 0
        THEN ChatResponse(DtcAnswer(DTC_LIBRARY[hit].code, DTC_LIBRARY[hit].desc),
                          Some(Append(tips, DTC_TIP)))
        ELSE IF Contains(<<"o","b","d">>, text) \/ Contains(<<"e","l","m","3","2","7">>, text)
        THEN ChatResponse(Fixed(ANSWER_OBD), Some(TIPS_OBD))
        ELSE IF Any(KW_IDLE, text)
        THEN ChatResponse(Fixed(ANSWER_IDLE), Some(TIPS_IDLE))
        ELSE IF Any(KW_ECU, text)
        THEN ChatResponse(Fixed(ANSWER_ECU), Some(TIPS_ECU))
        ELSE IF Any(KW_BATTERY, text)
        THEN ChatResponse(Fixed(ANSWER_BATTERY), Some(TIPS_BATTERY))
        ELSE ChatResponse(Fixed(ANSWER_DEFAULT), None)

----------------------------------------------------------------------------
(* Questions put to the assistant: up to two fragments, concatenated *)

FragList ==
    << <<"P","0","4","2","0">>,
       <<"p","0","3","0","0">>,
       <<"O","b","d">>,
       <<"r","a","l","e","n","t","i">>,
       <<"E","C","U">>,
       <<"1","2","V">>,
       <<"b","o","n","j","o","u","r">>,
       <<"D","É","M","A","R","R","A","G","E">>,
       <<"p","0","1","7","1">> >>

NumFrags == 7

Fragments == { FragList[i] : i \in 1..(IF NumFrags < Len(FragList) THEN NumFrags ELSE Len(FragList)) }

Questions == { a \o b : a \in Fragments \cup {<<>>}, b \in Fragments \cup {<<>>} }

----------------------------------------------------------------------------
(* The module-level generator of `random` (main.py:2).  Its output is a
   function of its hidden state alone: a cyclic stream of raw words, read
   at position rng.  gauss maps a word to a standard normal deviate (in
   hundredths), _randbelow to a residue. *)

RawStream == <<0, 6, 4, 1, 3, 2, 5>>

Deviate == <<-1000, -270, -70, 33, 157, 450, 1000>>

Period == Len(RawStream)

Draw(pos, i) == RawStream[((pos - 1 + i) % Period) + 1]

Advance(pos, n) == ((pos - 1 + n) % Period) + 1

(* random.gauss(mu, sigma) = mu + z * sigma, in hundredths *)
gauss(mu, sigma, raw) == mu * 100 + Deviate[raw + 1] * sigma

(* random.choice(seq) = seq[_randbelow(len(seq))] *)
choice(seq, raw) == seq[(raw % Len(seq)) + 1]

(* random.sample(population, k): k picks from a pool, each picked entry
   replaced by the pool's last live entry; m entries are still live and
   the i-th draw from pos on decides the next pick *)
RECURSIVE SamplePool(_, _, _, _, _)
SamplePool(pool, m, k, pos, i) ==
    IF k = 0 THEN <<>>
    ELSE LET j == Draw(pos, i) % m
         IN  <<pool[j + 1]>> \o
             SamplePool([pool EXCEPT ![j + 1] = pool[m]], m - 1, k - 1, pos, i + 1)

(* Faulty variant: the picks are independent (random.choices) *)
sample_with_replacement(population, k, pos, i) ==
    [n \in 1..k |-> population[(Draw(pos, i + n - 1) % Len(population)) + 1]]

sample(population, k, pos, i) == SamplePool(population, Len(population), k, pos, i)

----------------------------------------------------------------------------
(* The telemetry simulator, main.py:117-133 *)

(* int(x): the fractional part is dropped (truncation towards zero) *)
int(x100) == IF x100 >= 0 THEN x100 \div 100 ELSE -((-x100) \div 100)

max(a, b) == IF a >= b THEN a ELSE b
min(a, b) == IF a <= b THEN a ELSE b

(* round(x): to the nearest integer, ties to the even one *)
round(x100) ==
    LET f == (x100 - (x100 % 100)) \div 100
        r == x100 % 100
    IN  IF r > 50 THEN f + 1
        ELSE IF r < 50 THEN f
        ELSE IF f % 2 = 0 THEN f ELSE f + 1

(* Faulty variant: the upper clamp is missing *)
simulate_value_no_upper_clamp(baseline, variance, min_v, max_v, raw) ==
    max(min_v, int(gauss(baseline, variance, raw)))

(* Variant that rounds to the nearest integer instead of truncating *)
simulate_value_rounding(baseline, variance, min_v, max_v, raw) ==
    max(min_v, min(max_v, round(gauss(baseline, variance, raw))))

simulate_value(baseline, variance, min_v, max_v, raw) ==
    LET value == int(gauss(baseline, variance, raw))
    IN  max(min_v, min(max_v, value))

(* the six readings of a snapshot; the timestamp (wall clock) is left out *)
generate_live_data(pos) ==
    [rpm          |-> simulate_value(850, 80, 650, 1200, Draw(pos, 0)),
     speed        |-> simulate_value(0, 1, 0, 5, Draw(pos, 1)),
     coolant_temp |-> simulate_value(88, 3, 70, 100, Draw(pos, 2)),
     throttle     |-> simulate_value(4, 2, 0, 15, Draw(pos, 3)),
     load         |-> simulate_value(18, 5, 5, 35, Draw(pos, 4)),
     intake_temp  |-> simulate_value(32, 3, 5, 60, Draw(pos, 5))]

(* the six values random.gauss returned to those calls (hundredths) *)
LiveSamples(pos) ==
    [rpm          |-> gauss(850, 80, Draw(pos, 0)),
     speed        |-> gauss(0, 1, Draw(pos, 1)),
     coolant_temp |-> gauss(88, 3, Draw(pos, 2)),
     throttle     |-> gauss(4, 2, Draw(pos, 3)),
     load         |-> gauss(18, 5, Draw(pos, 4)),
     intake_temp  |-> gauss(32, 3, Draw(pos, 5))]

----------------------------------------------------------------------------
(* Diagnostics, main.py:156-168 *)

(* Faulty variant: P0300 is missing from the high-severity list *)
severity_p0420_only(c) == IF c \in {P0420} THEN "élevée" ELSE "moyenne"

severity(c) == IF c \in {P0420, P0300} THEN "élevée" ELSE "moyenne"

DiagnosticItem(lib, c) ==
    [code |-> c, description |-> Get(lib, c, "Code inconnu"), severity |-> severity(c)]

DiagCount(pos) == choice(<<0, 1, 2>>, Draw(pos, 0))

DiagCodes(lib, pos) == sample(Keys(lib), DiagCount(pos), pos, 1)

Diagnostics(lib, pos) ==
    LET codes == DiagCodes(lib, pos)
    IN  [i \in 1..Len(codes) |-> DiagnosticItem(lib, codes[i])]

----------------------------------------------------------------------------
(* Requests and responses *)

NoData == [rpm |-> 0, speed |-> 0, coolant_temp |-> 0, throttle |-> 0, load |-> 0, intake_temp |-> 0]

NoRequest == [kind |-> "none", question |-> <<>>]

Requests ==
    { [kind |-> k, question |-> <<>>] : k \in {"pids", "live", "diag"} }
        \cup { [kind |-> "chat", question |-> q] : q \in Questions }

NoResponse ==
    [kind |-> "none", question |-> <<>>, answer |-> Fixed(""), tips |-> None,
     samples |-> NoData, data |-> NoData, dtcs |-> <<>>, supported |-> <<>>,
     rngFrom |-> "boot"]

NoChat == [asked |-> FALSE, question |-> <<>>, answer |-> Fixed(""), tips |-> None]

ChatOf(r) == [asked |-> TRUE, question |-> r.question, answer |-> r.answer, tips |-> r.tips]

Init ==
    /\ SUPPORTED_PIDS = PIDS_INIT
    /\ DTC_LIBRARY = DTC_INIT
    /\ rng \in 1..Period
    /\ rngWriter = "boot"
    /\ request = NoRequest
    /\ last = NoResponse
    /\ prevChat = NoChat

(* A client sends a request; the response to the one before has been sent.
   A handler is one step: the handlers share nothing but the two tables,
   which they only read, and the generator. *)
Receive ==
    /\ request = NoRequest
    /\ \E r \in Requests : request' = r
    /\ prevChat' = IF last.kind = "chat" THEN ChatOf(last) ELSE prevChat
    /\ last' = NoResponse
    /\ UNCHANGED <<SUPPORTED_PIDS, DTC_LIBRARY, rng, rngWriter>>

obd_pids ==
    /\ request.kind = "pids"
    /\ last' = [NoResponse EXCEPT !.kind = "pids", !.supported = SUPPORTED_PIDS,
                                  !.rngFrom = rngWriter]
    /\ request' = NoRequest
    /\ UNCHANGED <<SUPPORTED_PIDS, DTC_LIBRARY, rng, rngWriter, prevChat>>

obd_live ==
    /\ request.kind = "live"
    /\ last' = [NoResponse EXCEPT !.kind = "live", !.samples = LiveSamples(rng),
                                  !.data = generate_live_data(rng),
                                  !.rngFrom = rngWriter]
    /\ rng' = Advance(rng, 6)
    /\ rngWriter' = "live"
    /\ request' = NoRequest
    /\ UNCHANGED <<SUPPORTED_PIDS, DTC_LIBRARY, prevChat>>

(* Faulty variant: the sampled codes are removed from the catalog *)
obd_diagnostics_consuming ==
    /\ request.kind = "diag"
    /\ last' = [NoResponse EXCEPT !.kind = "diag", !.dtcs = Diagnostics(DTC_LIBRARY, rng),
                                  !.rngFrom = rngWriter]
    /\ DTC_LIBRARY' = SelectSeq(DTC_LIBRARY,
                                LAMBDA e : \A i \in 1..Len(DiagCodes(DTC_LIBRARY, rng)) :
                                               DiagCodes(DTC_LIBRARY, rng)[i] # e.code)
    /\ rng' = Advance(rng, 1 + DiagCount(rng))
    /\ rngWriter' = "diag"
    /\ request' = NoRequest
    /\ UNCHANGED <<SUPPORTED_PIDS, prevChat>>

obd_diagnostics ==
    /\ request.kind = "diag"
    /\ last' = [NoResponse EXCEPT !.kind = "diag", !.dtcs = Diagnostics(DTC_LIBRARY, rng),
                                  !.rngFrom = rngWriter]
    /\ rng' = Advance(rng, 1 + DiagCount(rng))
    /\ rngWriter' = "diag"
    /\ request' = NoRequest
    /\ UNCHANGED <<SUPPORTED_PIDS, DTC_LIBRARY, prevChat>>

chat_endpoint ==
    /\ request.kind = "chat"
    /\ LET r == tech_assistant_answer(request.question)
       IN  last' = [NoResponse EXCEPT !.kind = "chat", !.question = request.question,
                                     !.answer = r.answer, !.tips = r.tips,
                                     !.rngFrom = rngWriter]
    /\ request' = NoRequest
    /\ UNCHANGED <<SUPPORTED_PIDS, DTC_LIBRARY, rng, rngWriter, prevChat>>

Next ==
    \/ Receive
    \/ obd_pids
    \/ obd_live
    \/ obd_diagnostics
    \/ chat_endpoint

Spec == Init /\ [][Next]_vars

----------------------------------------------------------------------------
(* Properties *)

FieldNames == {"rpm", "speed", "coolant_temp", "throttle", "load", "intake_temp"}

(* the declared closed range of each reading *)
DeclaredMin == [rpm |-> 650, speed |-> 0, coolant_temp |-> 70, throttle |-> 0, load |-> 5, intake_temp |-> 5]
DeclaredMax == [rpm |-> 1200, speed |-> 5, coolant_temp |-> 100, throttle |-> 15, load |-> 35, intake_temp |-> 60]

Clamp(v, lo, hi) == IF v < lo THEN lo ELSE IF v > hi THEN hi ELSE v

(* the integer part of a value given in hundredths, and the nearest integer *)
Truncated(x100) == CHOOSE n \in -2000..2000 :
                       IF x100 >= 0 THEN n * 100 <= x100 /\ x100 < (n + 1) * 100
                       ELSE (n - 1) * 100 < x100 /\ x100 <= n * 100
Nearest(x100) == CHOOSE n \in -2000..2000 :
                     /\ 2 * (n * 100 - x100) \in -100..100
                     /\ (2 * (n * 100 - x100) \in {-100, 100} => n % 2 = 0)

(* catalog entries whose lower-cased code occurs in the lower-cased question *)
CodesIn(q) == { i \in 1..Len(DTC_INIT) : Contains(lower(DTC_INIT[i].code), lower(q)) }

HasAny(q, words) == \E w \in words : Contains(w, lower(q))

Category1 == { <<"o","b","d">>, <<"e","l","m","3","2","7">> }
Category2 == { <<"r","p","m">>, <<"r","a","l","e","n","t","i">>, <<"b","o","u","c","l","e">>,
               <<"s","o","n","d","e"," ","l","a","m","b","d","a">>, <<"l","a","m","b","d","a">>,
               <<"o","2">> }
Category3 == { <<"e","c","u">>, <<"c","a","l","c","u","l","a","t","e","u","r">>,
               <<"r","e","p","r","o","g","r","a","m">>, <<"r","e","p","r","o","g">>,
               <<"c","a","r","t","o">>, <<"m","a","p">> }
Category4 == { <<"b","a","t","t","e","r","i","e">>, <<"a","l","t","e","r","n","a","t","e","u","r">>,
               <<"d","é","m","a","r","r","a","g","e">>, <<"d","é","m","a","r","r","e","u","r">>,
               <<"1","2","v">> }
AllKeywords == Category1 \cup Category2 \cup Category3 \cup Category4

IsDtcAnswer(r) ==
    /\ r.answer.template = "Le code {code} signifie: {desc}"
    /\ \E i \in 1..Len(DTC_INIT) :
           r.answer.code = DTC_INIT[i].code /\ r.answer.desc = DTC_INIT[i].desc
    /\ r.tips = Some(<<"Vérifier le faisceau, les connecteurs et effacer le code après réparation.">>)

(* C1: every reading of a live snapshot lies in its declared closed range,
   whatever the generator returned *)
C1_ReadingsInRange ==
    last.kind = "live" =>
        \A f \in FieldNames : last.data[f] \in DeclaredMin[f]..DeclaredMax[f]

(* a snapshot with a sample above its range and a sample below its range *)
C1_Witness ==
    /\ last.kind = "live"
    /\ \E f \in FieldNames : last.samples[f] > DeclaredMax[f] * 100 /\ last.data[f] = DeclaredMax[f]
    /\ \E f \in FieldNames : last.samples[f] < DeclaredMin[f] * 100 /\ last.data[f] = DeclaredMin[f]

(* C2: diagnostics returns 0, 1 or 2 items, never more than the catalog
   holds, with pairwise distinct codes that are all catalog keys *)
C2_DiagnosticsShape ==
    last.kind = "diag" =>
        /\ Len(last.dtcs) \in {0, 1, 2}
        /\ Len(last.dtcs) <= Len(DTC_INIT)
        /\ \A i, j \in 1..Len(last.dtcs) : i # j => last.dtcs[i].code # last.dtcs[j].code
        /\ \A i \in 1..Len(last.dtcs) :
               \E n \in 1..Len(DTC_INIT) : DTC_INIT[n].code = last.dtcs[i].code

(* a diagnostics response of two items *)
C2_Witness == last.kind = "diag" /\ Len(last.dtcs) = 2

(* C3: a question containing a catalog code gets the DTC answer, also when
   it contains keywords of the keyword categories *)
C3_DtcBeforeKeywords ==
    (last.kind = "chat" /\ CodesIn(last.question) # {}) => IsDtcAnswer(last)

(* a question with a catalog code and a keyword, answered with the DTC answer *)
C3_Witness ==
    /\ last.kind = "chat"
    /\ CodesIn(last.question) # {}
    /\ HasAny(last.question, AllKeywords)
    /\ IsDtcAnswer(last)

(* C4: a question without a catalog code gets the response of the first
   keyword category it matches, in the order obd/elm327, idle/lambda,
   ECU/remap, battery/starting, with that category's two tips *)
C4_FirstCategoryWins ==
    (last.kind = "chat" /\ CodesIn(last.question) = {}) =>
        LET q == last.question
        IN  /\ HasAny(q, Category1) =>
                /\ last.answer = Fixed(ANSWER_OBD)
                /\ last.tips = Some(<<"Toujours moteur chaud pour des valeurs stables",
                                      "Vérifier les tensions batterie (>12.4V à l'arrêt, >13.8V en charge)">>)
            /\ (~HasAny(q, Category1) /\ HasAny(q, Category2)) =>
                /\ last.answer = Fixed(ANSWER_IDLE)
                /\ last.tips = Some(<<"Contrôle fumigène pour prises d'air",
                                      "Nettoyage papillon et apprentissage ralenti">>)
            /\ (~HasAny(q, Category1 \cup Category2) /\ HasAny(q, Category3)) =>
                /\ last.answer = Fixed(ANSWER_ECU)
                /\ last.tips = Some(<<"Toujours sauvegarder la carto d'origine",
                                      "Surveiller EGT et AFR après modifs">>)
            /\ (~HasAny(q, Category1 \cup Category2 \cup Category3) /\ HasAny(q, Category4)) =>
                /\ last.answer = Fixed(ANSWER_BATTERY)
                /\ last.tips = Some(<<"Mesure avec multimètre en charge",
                                      "Nettoyer cosses et points de masse">>)

(* a question matching the idle and the ECU category, answered as idle *)
C4_Witness ==
    /\ last.kind = "chat"
    /\ CodesIn(last.question) = {}
    /\ HasAny(last.question, Category2)
    /\ HasAny(last.question, Category3)
    /\ last.answer = Fixed(ANSWER_IDLE)

(* C5: the empty question, and every question with no catalog code and no
   keyword, gets the default response with tips absent *)
C5_DefaultResponse ==
    (/\ last.kind = "chat"
     /\ CodesIn(last.question) = {}
     /\ ~HasAny(last.question, AllKeywords)) =>
        /\ last.answer = Fixed(ANSWER_DEFAULT)
        /\ last.tips = None

(* the empty question answered with the default response *)
C5_Witness ==
    /\ last.kind = "chat"
    /\ last.question = <<>>
    /\ last.answer = Fixed(ANSWER_DEFAULT)

(* C6: two chat calls with the same question return the same answer and
   tips, whatever was handled before or between them *)
C6_SameQuestionSameResponse ==
    (last.kind = "chat" /\ prevChat.asked /\ prevChat.question = last.question) =>
        /\ last.answer = prevChat.answer
        /\ last.tips = prevChat.tips

(* a DTC question asked again after an earlier DTC match, with requests
   that advanced the generator handled before it *)
C6_Witness ==
    /\ last.kind = "chat"
    /\ prevChat.asked
    /\ prevChat.question = last.question
    /\ CodesIn(last.question) # {}
    /\ last.rngFrom # "boot"

(* C7: an item's severity is "élevée" exactly when its code is P0420 or
   P0300, and "moyenne" for every other code *)
C7_SeverityByCode ==
    last.kind = "diag" =>
        \A i \in 1..Len(last.dtcs) :
            LET high == last.dtcs[i].code \in {<<"P","0","4","2","0">>, <<"P","0","3","0","0">>}
            IN  /\ high => last.dtcs[i].severity = "élevée"
                /\ ~high => last.dtcs[i].severity = "moyenne"

(* a diagnostics response holding P0300 and a code of medium severity *)
C7_Witness ==
    /\ last.kind = "diag"
    /\ \E i \in 1..Len(last.dtcs) : last.dtcs[i].code = <<"P","0","3","0","0">>
    /\ \E i \in 1..Len(last.dtcs) : last.dtcs[i].severity = "moyenne"

(* C8: of several catalog codes in a question, the one first in catalog
   order is reported, wherever the codes stand in the text, with one tip *)
FirstIn(S) == CHOOSE i \in S : \A j \in S : i <= j

C8_CatalogOrderWins ==
    (last.kind = "chat" /\ Cardinality(CodesIn(last.question)) >= 2) =>
        /\ last.answer.code = DTC_INIT[FirstIn(CodesIn(last.question))].code
        /\ last.answer.desc = DTC_INIT[FirstIn(CodesIn(last.question))].desc
        /\ Len(last.tips) = 1 /\ Len(last.tips[1]) = 1

(* a question in which P0420 stands before P0300, answered with P0300 *)
C8_Witness ==
    /\ last.kind = "chat"
    /\ last.question = <<"P","0","4","2","0","p","0","3","0","0">>
    /\ last.answer.code = <<"P","0","3","0","0">>

(* C9 as stated: every reading is the sample rounded to the nearest integer,
   then clamped to the range *)
C9_RoundedThenClamped ==
    last.kind = "live" =>
        \A f \in FieldNames :
            last.data[f] = Clamp(Nearest(last.samples[f]), DeclaredMin[f], DeclaredMax[f])

(* C9 amended: every reading is the sample with its fractional part dropped
   (int(), truncation towards zero), then clamped to the range *)
C9_TruncatedThenClamped ==
    last.kind = "live" =>
        \A f \in FieldNames :
            last.data[f] = Clamp(Truncated(last.samples[f]), DeclaredMin[f], DeclaredMax[f])

(* a snapshot with an in-range sample whose nearest integer is not its
   integer part *)
C9_Witness ==
    /\ last.kind = "live"
    /\ \E f \in FieldNames :
           /\ Nearest(last.samples[f]) # Truncated(last.samples[f])
           /\ Nearest(last.samples[f]) \in DeclaredMin[f]..DeclaredMax[f]
           /\ last.data[f] = Truncated(last.samples[f])

TablesIntact == SUPPORTED_PIDS = PIDS_INIT /\ DTC_LIBRARY = DTC_INIT

(* C10 as stated: the tables keep their initial contents and no request
   works on state another request wrote: a request using the generator
   finds it as the process start left it *)
C10_NoSharedState ==
    /\ TablesIntact
    /\ last.kind \in {"live", "diag"} => last.rngFrom = "boot"

(* C10 amended: the tables keep their initial contents; list-PIDs and chat
   requests leave the generator alone; the generator of `random` is the
   one piece of state that a request (live snapshot, diagnostics) reads
   and writes after another request wrote it *)
C10_OnlyGeneratorShared ==
    [][ /\ TablesIntact /\ TablesIntact'
        /\ (request.kind \in {"pids", "chat"} /\ request' = NoRequest) =>
               (rng' = rng /\ rngWriter' = rngWriter)
        /\ (request.kind \in {"live", "diag"} /\ request' = NoRequest) =>
               (rng' # rng /\ rngWriter' = request.kind) ]_vars

(* a live snapshot drawn from the generator as a diagnostics request left it *)
C10_Witness ==
    /\ TablesIntact
    /\ last.kind = "live"
    /\ last.rngFrom = "diag"

====
